---- MODULE Spec2Model ----
(***************************************************************************)
(* Order execution engine: the BullMQ-backed OrderQueue, the               *)
(* OrderExecutionService that drives an order through its lifecycle, the   *)
(* Redis order cache and the status events published per order.           *)
(*                                                                         *)
(* Every `await` of processOrder / cancelOrder / submitOrder that touches  *)
(* state another actor can see is one step of the model.  Event listeners  *)
(* of the worker ('active', 'failed') run when the worker emits the event, *)
(* so they are part of the action that emits it.                           *)
(***************************************************************************)
EXTENDS Integers, Sequences, FiniteSets, TLC

(* ---------------------------------------------------------------- bounds *)
\* orders submitted to the execution service (uuid v4 ids, here 1, 2, ...)
NumOrders == 1
Orders == 1..NumOrders
\* the order the queue's own addOrder / cancelOrder are also called for
ApiOrders == {1}
\* job ids used when the queue is driven directly with a mock callback
PoolSize == 12
\* direct re-submissions (orderQueue.addOrder with an id already used)
MaxResubmits == 1

(* ----------------------------------------------------- program constants *)
\* defaultJobOptions.attempts
MaxAttempts == 3
\* Worker concurrency
Concurrency == 10

Ids == 1..PoolSize

PENDING == "pending"
ROUTING == "routing"
BUILDING == "building"
SUBMITTED == "submitted"
CONFIRMED == "confirmed"
FAILED == "failed"

OrderStatus == {PENDING, ROUTING, BUILDING, SUBMITTED, CONFIRMED, FAILED}
Terminal == {CONFIRMED, FAILED}

\* no OrderRequest received yet
NoRequest == [tokenIn |-> "", tokenOut |-> "", amount |-> 0, slippage |-> 0]

VARIABLES
    processingCallback, \* OrderQueue.processingCallback: "processOrder" or "mock"
    wait,               \* the queue's wait list (FIFO of job ids)
    delayed,            \* jobs waiting for their retry backoff to expire
    completed,          \* jobs kept after success (removeOnComplete: 100)
    failed,             \* jobs kept after the last failed attempt
    runs,               \* per id: workers now executing the callback for it
    attemptsMade,       \* per id: the job's attemptsMade
    pc,                 \* per id: position of the worker inside the callback
    err,                \* per id: the error caught by the running attempt
    status,             \* per id: status of the Redis record, "none" if absent
    errorMessage,       \* per id: errorMessage of the Redis record
    dbStatus,           \* per id: status column of the database row
    dbError,            \* per id: errorMessage column of the database row
    timer,              \* per id: the 5 minute removeActiveOrder timer is armed
    subPc,              \* per id: position of submitOrder
    published,          \* per id: last status event published on the channel
    sub,                \* per id: a WebSocket client is subscribed to the order
    delivered,          \* per id: last status message sent to that client
    cpc,                \* per id: position of the service's cancelOrder
    calls,              \* per id: invocations of the processing callback
    enteredRouting,     \* per id: processOrder has written ROUTING
    cancelledOk,        \* per id: a cancel returned success
    cancelResult,       \* per id: how the last cancelOrder call returned
    updArgs,            \* per updateOrderStatus call: its status and fields
    updLocal,           \* per updateOrderStatus call: the record its GET returned
    inflight,           \* updateOrderStatus calls between their GET and their SET
    updOrder,           \* updateOrderStatus calls in the order they started
    resubmits,          \* direct addOrder calls with a used id
    deduped,            \* one of them found the job waiting or active
    addDuplicate,       \* the last of them found the job waiting or active
    addOrderResult,     \* how the last of them settled: "none", "resolved", an error
    paused,             \* queue.pause() is in force
    pauses,             \* pauseQueue calls so far
    waitedPaused,       \* jobs that have waited while the queue was paused
    donePaused,         \* jobs whose callback returned while it was paused
    now,                \* the clock of the limiter runs, in ms
    waitingN,           \* ... number of waiting jobs
    activeN,            \* ... number of active jobs
    limiterCount,       \* ... the limiter's counter of jobs started in its window
    limiterExpires,     \* ... when that counter expires (0: there is none)
    startedNow,         \* ... jobs started at the current instant
    startedPrev,        \* ... jobs started at the instant one clock step before
    backoff,            \* per id: the backoff delay of its last failed attempt, in ms
    dueAt,              \* per id: when that delay runs out
    statsPc,            \* getStats: "idle", the list it reads next, or "done"
    statsSeen,          \* getStats: per list, the jobs it found there
    statsJobs,          \* the jobs that existed when getStats was called
    health,             \* what the last healthCheck returned
    executionResult,    \* per id: txHash of processOrder's executionResult
    txHash,             \* per id: txHash column of the database row
    cachedTx,           \* per id: txHash of the Redis record
    cachedDex,          \* per id: selectedDex of the Redis record
    publishedData,      \* per id: <<txHash, executedPrice>> of the last event
    routingDecision,    \* per id: selectedDex of processOrder's routingDecision
    selectedDex,        \* per id: selectedDex column of the database row
    executedPrice,      \* per id: executedPrice column of the database row
    cachedPrice,        \* per id: executedPrice of the Redis record
    everQuoted,         \* per id: some venue has returned a quote for the order
    request,            \* the OrderRequest last passed to submitOrder
    submitResult,       \* what that call did: "idle", "accepted" or its error
    snap,               \* per id: the client has its snapshot, is not yet subscribed
    missed,             \* per id: an event was published in that window
    routePc,            \* getBestRoute called on its own: "idle", "quoting", "done"
    raydiumResult,      \* ... the settled result of getRaydiumQuote
    meteoraResult,      \* ... the settled result of getMeteorQuote
    quoteCalls,         \* ... calls made to each venue by the current call
    decision,           \* ... what the call returned or threw
    connections,        \* WebSocketService.connections.get(orderId): sockets
    listeners,          \* sockets whose callback listens on the subscriber client
    channelOn,          \* the subscriber client is subscribed to the order's channel
    sockOpen,           \* sockets whose readyState is OPEN
    sockPc,             \* per socket: position of handleOrderStatusConnection
    eventNo,            \* events published on the order's channel so far
    pings,              \* per socket: {type: 'ping'} messages the client sent
    pongs,              \* per socket: pong messages sent to it
    confirms,           \* per socket: 'connected' messages sent to it
    copies              \* per socket: copies of the last event sent to it

qvars == <<wait, delayed, completed, failed, runs, attemptsMade>>
wvars == <<pc, err>>
ovars == <<status, errorMessage, dbStatus, dbError, timer>>
cvars == <<cpc, cancelledOk, cancelResult>>
uvars == <<updArgs, updLocal, inflight, updOrder>>
evars == <<published, sub, delivered, snap, missed, publishedData>>
dirvars == <<resubmits, deduped, addDuplicate, addOrderResult>>
gvars == <<paused, pauses, waitedPaused, donePaused>>
lvars == <<now, waitingN, activeN, limiterCount, limiterExpires, startedNow,
           startedPrev>>
tvars == <<backoff, dueAt>>
hvars == <<statsPc, statsSeen, statsJobs, health>>
kvars == <<executionResult, txHash, cachedTx, cachedDex>>
nvars == <<gvars, lvars, tvars, hvars>>
avars == <<dirvars, nvars, kvars>>
rvars == <<routingDecision, selectedDex, executedPrice, cachedPrice, everQuoted>>
svars == <<request, submitResult>>
dvars == <<routePc, raydiumResult, meteoraResult, quoteCalls, decision>>
mvars == <<pings, pongs, confirms>>
bvars == <<connections, listeners, channelOn, sockOpen, sockPc, eventNo, copies,
           mvars>>
zvars == <<dvars, bvars>>
xvars == <<rvars, svars, zvars>>
vars == <<processingCallback, uvars, xvars, qvars, wvars, ovars, subPc, evars, cvars,
          calls, enteredRouting, avars>>

Range(s) == {s[i] : i \in DOMAIN s}

\* the lists getStats reads, in the order it reads them
BucketOrder == <<"waiting", "active", "completed", "failed", "delayed", "paused">>

\* concurrent updateOrderStatus calls followed on one order
MaxUpdates == 3
UpdateCalls == 1..MaxUpdates

\* the arguments of a call not made, the record of an order not in Redis
NoUpdate == [status |-> "none", errorMessage |-> "", txHash |-> ""]

\* an event without txHash and executedPrice
NoData == <<"", 0>>

\* no healthCheck has returned
NoHealth == [isHealthy |-> TRUE, waiting |-> -1, active |-> -1]

RECURSIVE SumRuns(_)
SumRuns(S) == IF S = {} THEN 0
              ELSE LET x == CHOOSE y \in S : TRUE IN runs[x] + SumRuns(S \ {x})

\* queue.getActive().length
ActiveCount == SumRuns(Ids)

(* ------------------------------------------------------------ router ---- *)

RAYDIUM == "raydium"
METEORA == "meteora"

\* DEX_CONFIGS[...].baseFee, in ten-thousandths (0.0025 and 0.002)
RaydiumFee == 25
MeteoraFee == 20

\* a DexQuote; price in whole units, fee and slippage in ten-thousandths.
\* A venue call that threw is a record with ok = FALSE
Quote(p, price, fee, slip) ==
    [ok |-> TRUE, price |-> price, fee |-> fee, slippage |-> slip, provider |-> p]

NoQuote(p) ==
    [ok |-> FALSE, price |-> 0, fee |-> 0, slippage |-> 0, provider |-> p]

\* the null alternativeQuote of a decision made on one quote
NullQuote == NoQuote("none")

\* a venue call that has not settled
PendingQuote == NoQuote("pending")

\* WebSocket clients of one order
NumSockets == 2
Sockets == 1..NumSockets
\* events published while the sockets are followed
MaxEvents == 3

\* quotes getRaydiumQuote / getMeteorQuote can return: the price varies
\* around the base price, the fee is the venue's, the slippage is within
\* 0.1%..0.3% (Raydium) and 0.05%..0.3% (Meteora)
Prices == {99, 100, 101}
RaydiumQuotes == {Quote(RAYDIUM, p, RaydiumFee, sl) : p \in Prices, sl \in {10, 20, 30}}
MeteoraQuotes == {Quote(METEORA, p, MeteoraFee, sl) : p \in Prices, sl \in {5, 15, 30}}

\* price * (1 - fee - slippage), times 10000
NetPrice(q) == q.price * (10000 - q.fee - q.slippage)

Abs(x) == IF x < 0 THEN -x ELSE x
Min(x, y) == IF x < y THEN x ELSE y

RECURSIVE Join(_)
\* errors.join(', ')
Join(errors) ==
    IF errors = <<>> THEN ""
    ELSE IF Len(errors) = 1 THEN errors[1]
    ELSE errors[1] \o ", " \o Join(Tail(errors))

QuoteErrorsFirstOnly(rq, mq) ==
    IF rq.ok THEN <<>> ELSE <<"Raydium: Raydium API temporarily unavailable">>

\* getAllQuotes: the errors array, one entry per rejected venue call
QuoteErrors(rq, mq) ==
    (IF rq.ok THEN <<>> ELSE <<"Raydium: Raydium API temporarily unavailable">>)
    \o (IF mq.ok THEN <<>> ELSE <<"Meteora: Meteora API temporarily unavailable">>)

\* a RoutingDecision, or the Error getBestRoute throws (error # "");
\* priceImprovement is the fraction <<numerator, denominator>>
Decision(e, dex, sel, alt, reason, nets, imp) ==
    [error |-> e, selectedDex |-> dex, selectedQuote |-> sel,
     alternativeQuote |-> alt, reason |-> reason, reasonNets |-> nets,
     priceImprovement |-> imp]

NoDecision == Decision("", "none", NullQuote, NullQuote, "", <<>>, <<0, 1>>)

ImprovementOverMax(a, b) == <<Abs(a - b) * 100, IF a < b THEN b ELSE a>>

\* Math.abs(a - b) / Math.min(a, b), then * 100
Improvement(a, b) == <<Abs(a - b) * 100, Min(a, b)>>

IsRaydiumBetterOrEqual(a, b) == a >= b

\* const isRaydiumBetter = raydiumNetPrice > meteoraNetPrice
IsRaydiumBetter(a, b) == a > b

SingleQuoteKeepsLoser(rq, mq) ==
    IF ~rq.ok
    THEN Decision("", METEORA, mq, rq, "Raydium unavailable, using Meteora",
                  <<>>, <<0, 1>>)
    ELSE Decision("", RAYDIUM, rq, mq, "Meteora unavailable, using Raydium",
                  <<>>, <<0, 1>>)

\* getBestRoute when exactly one venue quoted: alternativeQuote is the
\* other venue's null quote
SingleQuoteRoute(rq, mq) ==
    IF ~rq.ok
    THEN Decision("", METEORA, mq, NullQuote,
                  "Raydium unavailable, using Meteora", <<>>, <<0, 1>>)
    ELSE Decision("", RAYDIUM, rq, NullQuote,
                  "Meteora unavailable, using Raydium", <<>>, <<0, 1>>)

BestRouteFallsBackToRaydium(rq, mq) ==
    IF ~rq.ok /\ ~mq.ok
    THEN Decision("", RAYDIUM, rq, NullQuote, "No quotes, using Raydium", <<>>,
                  <<0, 1>>)
    ELSE IF ~rq.ok \/ ~mq.ok THEN SingleQuoteRoute(rq, mq)
    ELSE IF IsRaydiumBetter(NetPrice(rq), NetPrice(mq))
         THEN Decision("", RAYDIUM, rq, mq, "Better net price",
                       <<NetPrice(rq), NetPrice(mq)>>,
                       Improvement(NetPrice(rq), NetPrice(mq)))
         ELSE Decision("", METEORA, mq, rq, "Better net price",
                       <<NetPrice(mq), NetPrice(rq)>>,
                       Improvement(NetPrice(rq), NetPrice(mq)))

\* getBestRoute on the settled results of getAllQuotes
BestRoute(rq, mq) ==
    IF ~rq.ok /\ ~mq.ok
    THEN Decision("All DEXs unavailable: " \o Join(QuoteErrors(rq, mq)),
                  "none", NullQuote, NullQuote, "", <<>>, <<0, 1>>)
    ELSE IF ~rq.ok \/ ~mq.ok THEN SingleQuoteRoute(rq, mq)
    ELSE LET raydiumNetPrice == NetPrice(rq)
             meteoraNetPrice == NetPrice(mq)
         IN IF IsRaydiumBetter(raydiumNetPrice, meteoraNetPrice)
            THEN Decision("", RAYDIUM, rq, mq, "Better net price",
                          <<raydiumNetPrice, meteoraNetPrice>>,
                          Improvement(raydiumNetPrice, meteoraNetPrice))
            ELSE Decision("", METEORA, mq, rq, "Better net price",
                          <<meteoraNetPrice, raydiumNetPrice>>,
                          Improvement(raydiumNetPrice, meteoraNetPrice))

\* executeSwap's executedPrice: the price of a fresh quote of the venue,
\* moved by the slippage impact (here: not moved)
SwapPrice(dex) == 100

(* -------------------------------------------------------- Redis / DB ---- *)

\* redis.updateOrderStatus: read the record, set status, write it back;
\* nothing happens when the record is absent
UpdateOrderStatus(o, s) ==
    IF status[o] = "none" THEN status ELSE [status EXCEPT ![o] = s]

\* ... with additionalData = { errorMessage }
UpdateErrorMessage(o, m) ==
    IF status[o] = "none" THEN errorMessage ELSE [errorMessage EXCEPT ![o] = m]

\* OrderExecutionService.getOrderStatus: Redis first, the database otherwise
GetOrderStatus(o) == IF status[o] # "none" THEN status[o] ELSE dbStatus[o]

GetOrderError(o) == IF status[o] # "none" THEN errorMessage[o] ELSE dbError[o]

\* redis.publishOrderUpdate on channel order:<id>:updates; the callback of
\* subscribeToOrderUpdates forwards the message to the subscribed socket
PublishWith(o, s, data) ==
    /\ published' = [published EXCEPT ![o] = s]
    /\ publishedData' = [publishedData EXCEPT ![o] = data]
    /\ delivered' = IF sub[o] THEN [delivered EXCEPT ![o] = s] ELSE delivered
    /\ missed' = IF snap[o] THEN [missed EXCEPT ![o] = TRUE] ELSE missed
    /\ UNCHANGED <<sub, snap>>

\* ... of a message without txHash and executedPrice
Publish(o, s) == PublishWith(o, s, NoData)

(* ------------------------------------------------------------- queue ---- *)

\* queue.getJob(id) # null
JobExists(o) ==
    \/ o \in Range(wait)
    \/ runs[o] > 0
    \/ o \in delayed
    \/ o \in completed
    \/ o \in failed

JobStateOf(o) ==
    IF runs[o] > 0 THEN "active"
    ELSE IF o \in Range(wait) THEN "waiting"
    ELSE IF o \in delayed THEN "delayed"
    ELSE IF o \in completed THEN "completed"
    ELSE IF o \in failed THEN "failed"
    ELSE "none"

QueueAddNoDedup(o) == Append(wait, o)

\* queue.add(..., { jobId: orderId }): a job id that exists is not added again
QueueAdd(o) == IF JobExists(o) THEN wait ELSE Append(wait, o)

Init ==
    /\ processingCallback = "processOrder"
    /\ wait = <<>>
    /\ delayed = {}
    /\ completed = {}
    /\ failed = {}
    /\ runs = [o \in Ids |-> 0]
    /\ attemptsMade = [o \in Ids |-> 0]
    /\ pc = [o \in Ids |-> "idle"]
    /\ err = [o \in Ids |-> "none"]
    /\ status = [o \in Ids |-> "none"]
    /\ errorMessage = [o \in Ids |-> "none"]
    /\ dbStatus = [o \in Ids |-> "none"]
    /\ dbError = [o \in Ids |-> "none"]
    /\ timer = [o \in Ids |-> FALSE]
    /\ subPc = [o \in Ids |-> "idle"]
    /\ published = [o \in Ids |-> "none"]
    /\ sub = [o \in Ids |-> FALSE]
    /\ delivered = [o \in Ids |-> "none"]
    /\ cpc = [o \in Ids |-> "idle"]
    /\ calls = [o \in Ids |-> 0]
    /\ enteredRouting = [o \in Ids |-> FALSE]
    /\ cancelledOk = [o \in Ids |-> FALSE]
    /\ cancelResult = [o \in Ids |-> "none"]
    /\ updArgs = [c \in UpdateCalls |-> NoUpdate]
    /\ updLocal = [c \in UpdateCalls |-> NoUpdate]
    /\ inflight = <<>>
    /\ updOrder = <<>>
    /\ resubmits = 0
    /\ deduped = FALSE
    /\ addDuplicate = FALSE
    /\ addOrderResult = "none"
    /\ paused = FALSE
    /\ pauses = 0
    /\ waitedPaused = {}
    /\ donePaused = {}
    /\ now = 0
    /\ waitingN = 0
    /\ activeN = 0
    /\ limiterCount = 0
    /\ limiterExpires = 0
    /\ startedNow = 0
    /\ startedPrev = 0
    /\ backoff = [o \in Ids |-> 0]
    /\ dueAt = [o \in Ids |-> 0]
    /\ statsPc = "idle"
    /\ statsSeen = [b \in Range(BucketOrder) |-> {}]
    /\ statsJobs = {}
    /\ health = NoHealth
    /\ executionResult = [o \in Ids |-> ""]
    /\ txHash = [o \in Ids |-> ""]
    /\ cachedTx = [o \in Ids |-> ""]
    /\ cachedDex = [o \in Ids |-> "none"]
    /\ publishedData = [o \in Ids |-> NoData]
    /\ routingDecision = [o \in Ids |-> "none"]
    /\ selectedDex = [o \in Ids |-> "none"]
    /\ executedPrice = [o \in Ids |-> 0]
    /\ cachedPrice = [o \in Ids |-> 0]
    /\ everQuoted = [o \in Ids |-> FALSE]
    /\ request = NoRequest
    /\ submitResult = "idle"
    /\ snap = [o \in Ids |-> FALSE]
    /\ missed = [o \in Ids |-> FALSE]
    /\ routePc = "idle"
    /\ raydiumResult = PendingQuote
    /\ meteoraResult = PendingQuote
    /\ quoteCalls = [v \in {"raydium", "meteora"} |-> 0]
    /\ decision = NoDecision
    /\ connections = {}
    /\ listeners = {}
    /\ channelOn = FALSE
    /\ sockOpen = {}
    /\ sockPc = [k \in Sockets |-> "new"]
    /\ eventNo = 0
    /\ copies = [k \in Sockets |-> 0]
    /\ pings = [k \in Sockets |-> 0]
    /\ pongs = [k \in Sockets |-> 0]
    /\ confirms = [k \in Sockets |-> 0]

(* ------------------------------------------------------- submitOrder ---- *)

\* slippage is in hundredths (0.5 is 50), amount in whole units
MaxSlippage == 50

\* the token addresses of the tests: wrapped SOL, USDC, and one that is no
\* address
SOL == "So11111111111111111111111111111111111111112"
USDC == "EPjFWdd5AufqSSqeM2qN1xzybapC8G4wEGGkZwyTDt1v"

\* the request of the orders whose processing is followed step by step
SampleRequest == [tokenIn |-> SOL, tokenOut |-> USDC, amount |-> 1,
                  slippage |-> 1]

\* isValidSolanaAddress: 32 to 44 characters, all base58; of the tokens tried
\* SOL and USDC are ('-' and 'l' are no base58 characters)
IsValidSolanaAddress(address) ==
    Len(address) >= 32 /\ Len(address) <= 44 /\ address \in {SOL, USDC}

\* the requests tried against the validation
Requests == [tokenIn : {"", SOL, USDC, "invalid-token"},
             tokenOut : {"", SOL, USDC, "invalid-token"},
             amount : {-1, 0, 1},
             slippage : {-1, 0, 1, MaxSlippage, MaxSlippage + 1}]

\* JavaScript's !x for a string and for a number
FalsyString(x) == x = ""
FalsyNumber(x) == x = 0

ValidateNoSameTokenCheck(r) ==
    IF FalsyString(r.tokenIn) \/ FalsyString(r.tokenOut)
        THEN "tokenIn and tokenOut are required"
    ELSE IF FalsyNumber(r.amount) \/ r.amount <= 0
        THEN "amount must be greater than 0"
    ELSE IF FalsyNumber(r.slippage) \/ r.slippage < 0 \/ r.slippage > MaxSlippage
        THEN "slippage must be between 0 and 0.5 (50%)"
    ELSE "ok"

\* OrderExecutionService.validateOrderRequest: the message of the Error it
\* throws, "ok" when it returns
ValidateOrderRequest(r) ==
    IF FalsyString(r.tokenIn) \/ FalsyString(r.tokenOut)
        THEN "tokenIn and tokenOut are required"
    ELSE IF r.tokenIn = r.tokenOut
        THEN "tokenIn and tokenOut must be different"
    ELSE IF FalsyNumber(r.amount) \/ r.amount <= 0
        THEN "amount must be greater than 0"
    ELSE IF FalsyNumber(r.slippage) \/ r.slippage < 0 \/ r.slippage > MaxSlippage
        THEN "slippage must be between 0 and 0.5 (50%)"
    ELSE "ok"

\* submitOrder(r), o being the uuid the call would draw.  validateOrderRequest
\* throws before anything is written.  Otherwise, up to and including
\* orderQueue.addOrder: the row and the Redis record are created with status
\* pending and the job is enqueued
SubmitOrder(o, r) ==
    /\ dbStatus[o] = "none"
    /\ \A p \in Ids : p < o => dbStatus[p] # "none"
    /\ request' = r
    /\ IF ValidateOrderRequest(r) # "ok"
       THEN /\ submitResult' = ValidateOrderRequest(r)
            /\ UNCHANGED <<wait, attemptsMade, dbStatus, status, subPc>>
       ELSE /\ submitResult' = "accepted"
            /\ dbStatus' = [dbStatus EXCEPT ![o] = PENDING]
            /\ status' = [status EXCEPT ![o] = PENDING]
            /\ wait' = QueueAdd(o)
            /\ attemptsMade' = [attemptsMade EXCEPT ![o] = 0]
            /\ subPc' = [subPc EXCEPT ![o] = "publish"]
    /\ UNCHANGED <<processingCallback, uvars, zvars, rvars, delayed, completed, failed, runs,
                   wvars, errorMessage, dbError, timer, evars, cvars, calls,
                   enteredRouting, avars>>

\* submitOrder: sendWebSocketUpdate(PENDING), after addOrder and logExecution
SubmitPublish(o) ==
    /\ subPc[o] = "publish"
    /\ Publish(o, PENDING)
    /\ subPc' = [subPc EXCEPT ![o] = "done"]
    /\ UNCHANGED <<processingCallback, uvars, xvars, qvars, wvars, ovars, cvars, calls,
                   enteredRouting, avars>>

\* WebSocketService.handleOrderStatusConnection for an id submitOrder has
\* returned: `await sendCurrentOrderStatus` reads the Redis record and sends
\* its status, or sends the error 'Order not found' ("none") when there is
\* no record
SendCurrentOrderStatus(o) ==
    /\ subPc[o] = "done"
    /\ ~sub[o]
    /\ ~snap[o]
    /\ snap' = [snap EXCEPT ![o] = TRUE]
    /\ delivered' = [delivered EXCEPT ![o] = status[o]]
    /\ UNCHANGED <<processingCallback, uvars, xvars, qvars, wvars, ovars, subPc, published,
                   publishedData, sub, missed, cvars, calls, enteredRouting, avars>>

\* handleOrderStatusConnection: redis.subscribeToOrderUpdates, after the
\* snapshot was sent; from here on the channel's messages reach the socket
SubscribeToOrderUpdates(o) ==
    /\ snap[o]
    /\ snap' = [snap EXCEPT ![o] = FALSE]
    /\ sub' = [sub EXCEPT ![o] = TRUE]
    /\ UNCHANGED <<processingCallback, uvars, xvars, qvars, wvars, ovars, subPc, published,
                   publishedData, delivered, missed, cvars, calls, enteredRouting,
                   avars>>

(* ------------------------------------------------------------ worker ---- *)

DispatchingAlways == TRUE

\* queue.pause(): while the queue is paused the worker takes no job
Dispatching == ~paused

SlotFreeUnbounded == TRUE

\* Worker option concurrency: 10
SlotFree == ActiveCount < Concurrency

\* The worker moves the head of the wait list to active, emits 'active'
\* (listener: redis.updateOrderStatus(id, PENDING)) and calls the processor
Activate ==
    /\ wait # <<>>
    /\ SlotFree
    /\ Dispatching
    /\ LET o == Head(wait) IN
        /\ wait' = Tail(wait)
        /\ runs' = [runs EXCEPT ![o] = @ + 1]
        /\ calls' = [calls EXCEPT ![o] = @ + 1]
        /\ status' = UpdateOrderStatus(o, PENDING)
        /\ pc' = [pc EXCEPT ![o] =
                    IF processingCallback = "processOrder" THEN "setRouting"
                    ELSE "mock"]
        /\ err' = [err EXCEPT ![o] = "none"]
    /\ UNCHANGED <<processingCallback, uvars, xvars, delayed, completed, failed, attemptsMade,
                   errorMessage, dbStatus, dbError, timer, subPc, evars,
                   cvars, enteredRouting, avars>>

\* a step of processOrder that only writes the Redis status
SetStatus(o, at, s, next) ==
    /\ pc[o] = at
    /\ status' = UpdateOrderStatus(o, s)
    /\ pc' = [pc EXCEPT ![o] = next]
    /\ enteredRouting' = IF s = ROUTING THEN [enteredRouting EXCEPT ![o] = TRUE]
                         ELSE enteredRouting
    /\ UNCHANGED <<processingCallback, uvars, xvars, qvars, err, errorMessage, dbStatus,
                   dbError, timer, subPc, evars, cvars, calls, avars>>

\* a step of processOrder that only publishes a status event
PubStatus(o, at, s, next) ==
    /\ pc[o] = at
    /\ Publish(o, s)
    /\ pc' = [pc EXCEPT ![o] = next]
    /\ UNCHANGED <<processingCallback, uvars, xvars, qvars, err, ovars, subPc, cvars, calls,
                   enteredRouting, avars>>

GetBestRouteRequotes(o) ==
    /\ pc[o] = "getBestRoute"
    /\ \E rq \in {NoQuote(RAYDIUM), Quote(RAYDIUM, 100, RaydiumFee, 10)},
          mq \in {NoQuote(METEORA), Quote(METEORA, 100, MeteoraFee, 5)} :
        LET d == BestRoute(rq, mq) IN
        /\ everQuoted' = [everQuoted EXCEPT ![o] = @ \/ rq.ok \/ mq.ok]
        /\ IF d.error = ""
           THEN /\ pc' = [pc EXCEPT ![o] = "dbRouted"]
                /\ routingDecision' = [routingDecision EXCEPT ![o] = d.selectedDex]
                /\ err' = err
           ELSE /\ pc' = pc
                /\ err' = [err EXCEPT ![o] = d.error]
                /\ routingDecision' = routingDecision
    /\ UNCHANGED <<processingCallback, uvars, zvars, svars, selectedDex, executedPrice,
                   cachedPrice, qvars, ovars, subPc, evars, cvars, calls,
                   enteredRouting, avars>>

\* processOrder: dexRouter.getBestRoute returns a decision, or throws when
\* both venues failed to quote; each venue either throws or returns one quote
GetBestRoute(o) ==
    /\ pc[o] = "getBestRoute"
    /\ \E rq \in {NoQuote(RAYDIUM), Quote(RAYDIUM, 100, RaydiumFee, 10)},
          mq \in {NoQuote(METEORA), Quote(METEORA, 100, MeteoraFee, 5)} :
        LET d == BestRoute(rq, mq) IN
        /\ everQuoted' = [everQuoted EXCEPT ![o] = @ \/ rq.ok \/ mq.ok]
        /\ IF d.error = ""
           THEN /\ pc' = [pc EXCEPT ![o] = "dbRouted"]
                /\ routingDecision' = [routingDecision EXCEPT ![o] = d.selectedDex]
                /\ err' = err
           ELSE /\ pc' = [pc EXCEPT ![o] = "catchDb"]
                /\ err' = [err EXCEPT ![o] = d.error]
                /\ routingDecision' = routingDecision
    /\ UNCHANGED <<processingCallback, uvars, zvars, svars, selectedDex, executedPrice,
                   cachedPrice, qvars, ovars, subPc, evars, cvars, calls,
                   enteredRouting, avars>>

\* processOrder: db.updateOrder({selectedDex, estimatedPrice})
DbRouted(o) ==
    /\ pc[o] = "dbRouted"
    /\ selectedDex' = [selectedDex EXCEPT ![o] = routingDecision[o]]
    /\ pc' = [pc EXCEPT ![o] = "pubRouted"]
    /\ UNCHANGED <<processingCallback, uvars, zvars, svars, routingDecision, executedPrice,
                   cachedPrice, everQuoted, qvars, err, ovars, subPc, evars,
                   cvars, calls, enteredRouting, avars>>

\* generateMockTxHash: 64 random hexadecimal digits; two of them
TxHashes == {"5f2b8c1e9a7d4c3b6e0f1a2d3c4b5a69788796a5b4c3d2e1f0a9b8c7d6e5f4a3",
             "0c9d8e7f6a5b4c3d2e1f00112233445566778899aabbccddeeff0123456789ab"}

\* processOrder: dexRouter.executeSwap returns a result or throws
ExecuteSwap(o) ==
    /\ pc[o] = "executeSwap"
    /\ \/ \E h \in TxHashes :
            /\ pc' = [pc EXCEPT ![o] = "dbConfirmed"]
            /\ executionResult' = [executionResult EXCEPT ![o] = h]
            /\ err' = err
       \/ /\ pc' = [pc EXCEPT ![o] = "catchDb"]
          /\ err' = [err EXCEPT ![o] = "Execution failed"]
          /\ executionResult' = executionResult
    /\ UNCHANGED <<processingCallback, uvars, xvars, qvars, ovars, subPc, evars, cvars,
                   calls, enteredRouting, dirvars, nvars, txHash, cachedTx,
                   cachedDex>>

\* processOrder: db.updateOrder({status: CONFIRMED, executedPrice, txHash})
DbConfirmed(o) ==
    /\ pc[o] = "dbConfirmed"
    /\ dbStatus' = [dbStatus EXCEPT ![o] = CONFIRMED]
    /\ executedPrice' = [executedPrice EXCEPT ![o] = SwapPrice(routingDecision[o])]
    /\ txHash' = [txHash EXCEPT ![o] = executionResult[o]]
    /\ pc' = [pc EXCEPT ![o] = "setConfirmed"]
    /\ UNCHANGED <<processingCallback, uvars, zvars, svars, routingDecision, selectedDex,
                   cachedPrice, everQuoted, qvars, err, status, errorMessage,
                   dbError, timer, subPc, evars, cvars, calls, enteredRouting,
                   dirvars, nvars, executionResult, cachedTx, cachedDex>>

\* processOrder: updateOrderStatus(CONFIRMED, {executedPrice, txHash})
SetConfirmed(o) ==
    /\ pc[o] = "setConfirmed"
    /\ status' = UpdateOrderStatus(o, CONFIRMED)
    /\ cachedPrice' = IF status[o] = "none" THEN cachedPrice
                      ELSE [cachedPrice EXCEPT ![o] = SwapPrice(routingDecision[o])]
    /\ cachedTx' = IF status[o] = "none" THEN cachedTx
                   ELSE [cachedTx EXCEPT ![o] = executionResult[o]]
    /\ pc' = [pc EXCEPT ![o] = "pubConfirmed"]
    /\ UNCHANGED <<processingCallback, uvars, zvars, svars, routingDecision, selectedDex,
                   executedPrice, everQuoted, qvars, err, errorMessage,
                   dbStatus, dbError, timer, subPc, evars, cvars, calls,
                   enteredRouting, dirvars, nvars, executionResult, txHash,
                   cachedDex>>

\* processOrder: the CONFIRMED event, the removeActiveOrder timer, return;
\* the worker then moves the job to completed
PubConfirmed(o) ==
    /\ pc[o] = "pubConfirmed"
    /\ PublishWith(o, CONFIRMED, <<executionResult[o], SwapPrice(routingDecision[o])>>)
    /\ timer' = [timer EXCEPT ![o] = TRUE]
    /\ pc' = [pc EXCEPT ![o] = "idle"]
    /\ runs' = [runs EXCEPT ![o] = @ - 1]
    /\ completed' = completed \cup {o}
    /\ UNCHANGED <<processingCallback, uvars, xvars, wait, delayed, failed, attemptsMade, err,
                   status, errorMessage, dbStatus, dbError, subPc, cvars, calls,
                   enteredRouting, avars>>

\* processOrder catch: db.updateOrder({status: FAILED, errorMessage})
CatchDb(o) ==
    /\ pc[o] = "catchDb"
    /\ dbStatus' = [dbStatus EXCEPT ![o] = FAILED]
    /\ dbError' = [dbError EXCEPT ![o] = err[o]]
    /\ pc' = [pc EXCEPT ![o] = "catchRedis"]
    /\ UNCHANGED <<processingCallback, uvars, xvars, qvars, err, status, errorMessage, timer,
                   subPc, evars, cvars, calls, enteredRouting, avars>>

\* processOrder catch: updateOrderStatus(FAILED, {errorMessage})
CatchRedis(o) ==
    /\ pc[o] = "catchRedis"
    /\ status' = UpdateOrderStatus(o, FAILED)
    /\ errorMessage' = UpdateErrorMessage(o, err[o])
    /\ pc' = [pc EXCEPT ![o] = "catchPub"]
    /\ UNCHANGED <<processingCallback, uvars, xvars, qvars, err, dbStatus, dbError, timer,
                   subPc, evars, cvars, calls, enteredRouting, avars>>

ShouldRetryOffByOne(o) == attemptsMade[o] + 1 <= MaxAttempts

\* attempts: 3 -- a failed attempt is retried while attemptsMade < attempts
ShouldRetry(o) == attemptsMade[o] + 1 < MaxAttempts

\* defaultJobOptions.backoff.delay
BaseDelay == 1000

BackoffDelayDoubled(n) == BaseDelay * 2 ^ n

\* backoff: { type: 'exponential', delay: 1000 }: the delay after the n-th
\* failed attempt
BackoffDelay(n) == BaseDelay * 2 ^ (n - 1)

\* the worker schedules the retry of a failed attempt, if one remains
ScheduleRetry(o) ==
    IF ShouldRetry(o)
    THEN /\ backoff' = [backoff EXCEPT ![o] = BackoffDelay(attemptsMade[o] + 1)]
         /\ dueAt' = [dueAt EXCEPT ![o] = now + BackoffDelay(attemptsMade[o] + 1)]
    ELSE /\ backoff' = [backoff EXCEPT ![o] = 0]
         /\ dueAt' = dueAt

\* processOrder catch: the FAILED event and `throw error`.  The worker counts
\* the attempt, moves the job to delayed (backoff) or to failed, and emits
\* 'failed' (listener: redis.updateOrderStatus(id, FAILED, {errorMessage}))
CatchPub(o) ==
    /\ pc[o] = "catchPub"
    /\ Publish(o, FAILED)
    /\ attemptsMade' = [attemptsMade EXCEPT ![o] = @ + 1]
    /\ runs' = [runs EXCEPT ![o] = @ - 1]
    /\ IF ShouldRetry(o)
       THEN delayed' = delayed \cup {o} /\ failed' = failed
       ELSE failed' = failed \cup {o} /\ delayed' = delayed
    /\ ScheduleRetry(o)
    /\ status' = UpdateOrderStatus(o, FAILED)
    /\ errorMessage' = UpdateErrorMessage(o, err[o])
    /\ pc' = [pc EXCEPT ![o] = "idle"]
    /\ UNCHANGED <<processingCallback, uvars, xvars, wait, completed, err, dbStatus, dbError,
                   timer, subPc, cvars, calls, enteredRouting, dirvars, gvars,
                   lvars, hvars, kvars>>

BackoffNeverExpires(o) == FALSE

\* backoff: exponential, delay 1000 -- the delay of a delayed job runs out
BackoffExpired(o) == o \in delayed

\* the queue promotes a delayed job to the wait list
Promote(o) ==
    /\ BackoffExpired(o)
    /\ o \in delayed
    /\ delayed' = delayed \ {o}
    /\ wait' = Append(wait, o)
    /\ UNCHANGED <<processingCallback, uvars, xvars, completed, failed, runs, attemptsMade,
                   wvars, ovars, subPc, evars, cvars, calls, enteredRouting,
                   avars>>

\* setTimeout(() => redis.removeActiveOrder(orderId), 300000)
RemoveActiveOrder(o) ==
    /\ timer[o]
    /\ timer' = [timer EXCEPT ![o] = FALSE]
    /\ status' = [status EXCEPT ![o] = "none"]
    /\ errorMessage' = [errorMessage EXCEPT ![o] = "none"]
    /\ cachedPrice' = [cachedPrice EXCEPT ![o] = 0]
    /\ cachedTx' = [cachedTx EXCEPT ![o] = ""]
    /\ cachedDex' = [cachedDex EXCEPT ![o] = "none"]
    /\ UNCHANGED <<processingCallback, uvars, zvars, svars, routingDecision, selectedDex,
                   executedPrice, everQuoted, qvars, wvars, dbStatus, dbError, subPc,
                   evars, cvars, calls, enteredRouting, dirvars, nvars,
                   executionResult, txHash>>

(* ------------------------------------------------------- cancelOrder ---- *)

JobLockedNever(o) == FALSE

\* job.remove() fails for a job a worker holds the lock of (an active job)
JobLocked(o) == runs[o] > 0

\* OrderQueue.cancelOrder when getJob finds a job that remove() can remove:
\* the job leaves the queue, whatever list it was in, and the Redis record
\* is marked FAILED with 'Order cancelled by user'
QueueCancelOrder(o) ==
    /\ JobExists(o)
    /\ ~JobLocked(o)
    /\ wait' = SelectSeq(wait, LAMBDA x : x # o)
    /\ delayed' = delayed \ {o}
    /\ completed' = completed \ {o}
    /\ failed' = failed \ {o}
    /\ status' = UpdateOrderStatus(o, FAILED)
    /\ errorMessage' = UpdateErrorMessage(o, "Order cancelled by user")
    /\ UNCHANGED <<runs, attemptsMade, dbStatus, dbError, timer>>

\* OrderExecutionService.cancelOrder: getOrderStatus and the two guards.
\* 'Order not found' and 'Cannot cancel order in <status> state' are thrown
\* before anything is written: they leave every variable as it is.  The
\* caller has the order id only once submitOrder has returned it
CancelRead(o) ==
    /\ cpc[o] = "idle"
    /\ subPc[o] # "publish"
    /\ cpc' = IF GetOrderStatus(o) = PENDING THEN [cpc EXCEPT ![o] = "remove"]
              ELSE cpc
    /\ cancelResult' = [cancelResult EXCEPT ![o] =
                          IF GetOrderStatus(o) = "none" THEN "Order not found"
                          ELSE IF GetOrderStatus(o) # PENDING
                          THEN "Cannot cancel order"
                          ELSE "none"]
    /\ UNCHANGED <<processingCallback, uvars, xvars, qvars, wvars, ovars, subPc, evars,
                   cancelledOk, calls, enteredRouting, avars>>

\* cancelOrder: orderQueue.cancelOrder(orderId) removed the job
CancelRemove(o) ==
    /\ cpc[o] = "remove"
    /\ QueueCancelOrder(o)
    /\ cpc' = [cpc EXCEPT ![o] = "db"]
    /\ UNCHANGED <<processingCallback, uvars, xvars, wvars, subPc, evars, cancelledOk,
                   cancelResult, calls, enteredRouting, avars>>

\* cancelOrder: orderQueue.cancelOrder(orderId) threw (no job, or the job is
\* locked by a worker); the catch rethrows 'Failed to cancel order'
CancelRemoveThrows(o) ==
    /\ cpc[o] = "remove"
    /\ ~JobExists(o) \/ JobLocked(o)
    /\ cpc' = [cpc EXCEPT ![o] = "idle"]
    /\ cancelResult' = [cancelResult EXCEPT ![o] = "Failed to cancel order"]
    /\ UNCHANGED <<processingCallback, uvars, xvars, qvars, wvars, ovars, subPc, evars,
                   cancelledOk, calls, enteredRouting, avars>>

\* cancelOrder: db.updateOrder({status: FAILED, errorMessage})
CancelDb(o) ==
    /\ cpc[o] = "db"
    /\ dbStatus' = [dbStatus EXCEPT ![o] = FAILED]
    /\ dbError' = [dbError EXCEPT ![o] = "Cancelled by user"]
    /\ cpc' = [cpc EXCEPT ![o] = "redis"]
    /\ UNCHANGED <<processingCallback, uvars, xvars, qvars, wvars, status, errorMessage, timer,
                   subPc, evars, cancelledOk, cancelResult, calls, enteredRouting,
                   avars>>

\* cancelOrder: updateOrderStatus(FAILED, {errorMessage: 'Cancelled by user'})
CancelRedis(o) ==
    /\ cpc[o] = "redis"
    /\ status' = UpdateOrderStatus(o, FAILED)
    /\ errorMessage' = UpdateErrorMessage(o, "Cancelled by user")
    /\ cpc' = [cpc EXCEPT ![o] = "publish"]
    /\ UNCHANGED <<processingCallback, uvars, xvars, qvars, wvars, dbStatus, dbError, timer,
                   subPc, evars, cancelledOk, cancelResult, calls, enteredRouting,
                   avars>>

\* cancelOrder: the FAILED event, then the call returns
CancelPublish(o) ==
    /\ cpc[o] = "publish"
    /\ Publish(o, FAILED)
    /\ cancelledOk' = [cancelledOk EXCEPT ![o] = TRUE]
    /\ cancelResult' = [cancelResult EXCEPT ![o] = "success"]
    /\ cpc' = [cpc EXCEPT ![o] = "idle"]
    /\ UNCHANGED <<processingCallback, uvars, xvars, qvars, wvars, ovars, subPc, calls,
                   enteredRouting, avars>>

(* ------------------------------------------- the queue driven directly ---- *)

\* orderQueue.addOrder called again with an order id already handed out:
\* queue.add resolves with the job that exists, getWaiting and setGauge
\* follow, and the call resolves
DirectAddOrder(o) ==
    /\ resubmits < MaxResubmits
    /\ dbStatus[o] # "none"
    /\ resubmits' = resubmits + 1
    /\ deduped' = (deduped \/ JobStateOf(o) \in {"waiting", "active"})
    /\ addDuplicate' = (JobStateOf(o) \in {"waiting", "active"})
    /\ addOrderResult' = "resolved"
    /\ wait' = QueueAdd(o)
    /\ attemptsMade' = IF JobExists(o) THEN attemptsMade
                       ELSE [attemptsMade EXCEPT ![o] = 0]
    /\ UNCHANGED <<processingCallback, uvars, xvars, delayed, completed, failed, runs, wvars,
                   ovars, subPc, evars, cvars, calls, enteredRouting, nvars,
                   kvars>>

\* orderQueue.cancelOrder called directly
DirectCancelOrder(o) ==
    /\ QueueCancelOrder(o)
    /\ UNCHANGED <<processingCallback, uvars, xvars, wvars, subPc, evars, cvars, calls,
                   enteredRouting, avars>>

\* orderQueue.addOrder of the queue tests: ids order-0, order-1, ...
PoolAddOrder(o) ==
    /\ ~JobExists(o)
    /\ \A p \in Ids : p < o => JobExists(p)
    /\ wait' = QueueAdd(o)
    /\ waitedPaused' = IF paused THEN waitedPaused \cup {o} ELSE waitedPaused
    /\ UNCHANGED <<processingCallback, uvars, xvars, delayed, completed, failed, runs,
                   attemptsMade, wvars, ovars, subPc, evars, cvars, calls,
                   enteredRouting, dirvars, paused, pauses, donePaused, lvars, tvars, hvars, kvars>>

MockCallbackRequeues(o) ==
    /\ pc[o] = "mock"
    /\ pc' = [pc EXCEPT ![o] = "idle"]
    /\ runs' = [runs EXCEPT ![o] = @ - 1]
    /\ completed' = completed \cup {o}
    /\ wait' = Append(wait, o)
    /\ UNCHANGED <<processingCallback, uvars, xvars, delayed, failed, attemptsMade, err,
                   ovars, subPc, evars, cvars, calls, enteredRouting, avars>>

\* the mock callback of the queue tests resolves; the job is completed
MockCallback(o) ==
    /\ pc[o] = "mock"
    /\ pc' = [pc EXCEPT ![o] = "idle"]
    /\ runs' = [runs EXCEPT ![o] = @ - 1]
    /\ completed' = completed \cup {o}
    /\ donePaused' = IF paused THEN donePaused \cup {o} ELSE donePaused
    /\ UNCHANGED <<processingCallback, uvars, xvars, wait, delayed, failed, attemptsMade, err,
                   ovars, subPc, evars, cvars, calls, enteredRouting,
                   dirvars, paused, pauses, waitedPaused, lvars, tvars, hvars, kvars>>

\* the mock callback of the queue tests rejects ('Processing failed'): the
\* worker counts the attempt, moves the job to delayed (backoff) or to
\* failed, and emits 'failed' (listener: redis.updateOrderStatus(FAILED))
MockCallbackRejects(o) ==
    /\ pc[o] = "mock"
    /\ pc' = [pc EXCEPT ![o] = "idle"]
    /\ err' = [err EXCEPT ![o] = "Processing failed"]
    /\ attemptsMade' = [attemptsMade EXCEPT ![o] = @ + 1]
    /\ runs' = [runs EXCEPT ![o] = @ - 1]
    /\ IF ShouldRetry(o)
       THEN delayed' = delayed \cup {o} /\ failed' = failed
       ELSE failed' = failed \cup {o} /\ delayed' = delayed
    /\ ScheduleRetry(o)
    /\ status' = UpdateOrderStatus(o, FAILED)
    /\ errorMessage' = UpdateErrorMessage(o, "Processing failed")
    /\ UNCHANGED <<processingCallback, uvars, xvars, wait, completed, dbStatus, dbError,
                   timer, subPc, evars, cvars, calls, enteredRouting, dirvars,
                   gvars, lvars, hvars, kvars>>

(* ----------------------------------------------------- specifications ---- *)

ProcessOrder(o) ==
    \/ SetStatus(o, "setRouting", ROUTING, "pubRouting")
    \/ PubStatus(o, "pubRouting", ROUTING, "getBestRoute")
    \/ GetBestRoute(o)
    \/ DbRouted(o)
    \/ PubStatus(o, "pubRouted", ROUTING, "setBuilding")
    \/ SetStatus(o, "setBuilding", BUILDING, "pubBuilding")
    \/ PubStatus(o, "pubBuilding", BUILDING, "setSubmitted")
    \/ SetStatus(o, "setSubmitted", SUBMITTED, "pubSubmitted")
    \/ PubStatus(o, "pubSubmitted", SUBMITTED, "executeSwap")
    \/ ExecuteSwap(o)
    \/ DbConfirmed(o)
    \/ SetConfirmed(o)
    \/ PubConfirmed(o)
    \/ CatchDb(o)
    \/ CatchRedis(o)
    \/ CatchPub(o)

CancelContinue(o) ==
    \/ CancelRemove(o)
    \/ CancelRemoveThrows(o)
    \/ CancelDb(o)
    \/ CancelRedis(o)
    \/ CancelPublish(o)

NextOver(S) ==
    \/ Activate
    \/ \E o \in S :
        \/ SubmitOrder(o, SampleRequest)
        \/ SubmitPublish(o)
        \/ SendCurrentOrderStatus(o)
        \/ SubscribeToOrderUpdates(o)
        \/ ProcessOrder(o)
        \/ Promote(o)
        \/ RemoveActiveOrder(o)
        \/ CancelRead(o)
        \/ CancelContinue(o)

Next == NextOver(Orders)

\* the service: submitOrder, the worker, cancelOrder, one subscriber per order
Spec == Init /\ [][Next]_vars

\* the service under the scheduling Node and BullMQ give: a started call
\* runs on, a waiting job is picked up, a backoff delay runs out
Fairness ==
    /\ WF_vars(Activate)
    /\ \A o \in Orders :
        /\ WF_vars(SubmitPublish(o))
        /\ WF_vars(SubscribeToOrderUpdates(o))
        /\ WF_vars(ProcessOrder(o))
        /\ WF_vars(Promote(o))
        /\ WF_vars(CancelContinue(o))

LiveSpec == Spec /\ Fairness

NextQueueApi ==
    \/ NextOver(ApiOrders)
    \/ \E o \in ApiOrders :
        \/ DirectAddOrder(o)
        \/ DirectCancelOrder(o)

\* the service, with the queue's addOrder and cancelOrder also called directly
SpecQueueApi == Init /\ [][NextQueueApi]_vars

InitPool ==
    /\ processingCallback = "mock"
    /\ wait = <<>>
    /\ delayed = {}
    /\ completed = {}
    /\ failed = {}
    /\ runs = [o \in Ids |-> 0]
    /\ attemptsMade = [o \in Ids |-> 0]
    /\ pc = [o \in Ids |-> "idle"]
    /\ err = [o \in Ids |-> "none"]
    /\ status = [o \in Ids |-> "none"]
    /\ errorMessage = [o \in Ids |-> "none"]
    /\ dbStatus = [o \in Ids |-> "none"]
    /\ dbError = [o \in Ids |-> "none"]
    /\ timer = [o \in Ids |-> FALSE]
    /\ subPc = [o \in Ids |-> "idle"]
    /\ published = [o \in Ids |-> "none"]
    /\ sub = [o \in Ids |-> FALSE]
    /\ delivered = [o \in Ids |-> "none"]
    /\ cpc = [o \in Ids |-> "idle"]
    /\ calls = [o \in Ids |-> 0]
    /\ enteredRouting = [o \in Ids |-> FALSE]
    /\ cancelledOk = [o \in Ids |-> FALSE]
    /\ cancelResult = [o \in Ids |-> "none"]
    /\ updArgs = [c \in UpdateCalls |-> NoUpdate]
    /\ updLocal = [c \in UpdateCalls |-> NoUpdate]
    /\ inflight = <<>>
    /\ updOrder = <<>>
    /\ resubmits = 0
    /\ deduped = FALSE
    /\ addDuplicate = FALSE
    /\ addOrderResult = "none"
    /\ paused = FALSE
    /\ pauses = 0
    /\ waitedPaused = {}
    /\ donePaused = {}
    /\ now = 0
    /\ waitingN = 0
    /\ activeN = 0
    /\ limiterCount = 0
    /\ limiterExpires = 0
    /\ startedNow = 0
    /\ startedPrev = 0
    /\ backoff = [o \in Ids |-> 0]
    /\ dueAt = [o \in Ids |-> 0]
    /\ statsPc = "idle"
    /\ statsSeen = [b \in Range(BucketOrder) |-> {}]
    /\ statsJobs = {}
    /\ health = NoHealth
    /\ executionResult = [o \in Ids |-> ""]
    /\ txHash = [o \in Ids |-> ""]
    /\ cachedTx = [o \in Ids |-> ""]
    /\ cachedDex = [o \in Ids |-> "none"]
    /\ publishedData = [o \in Ids |-> NoData]
    /\ routingDecision = [o \in Ids |-> "none"]
    /\ selectedDex = [o \in Ids |-> "none"]
    /\ executedPrice = [o \in Ids |-> 0]
    /\ cachedPrice = [o \in Ids |-> 0]
    /\ everQuoted = [o \in Ids |-> FALSE]
    /\ request = NoRequest
    /\ submitResult = "idle"
    /\ snap = [o \in Ids |-> FALSE]
    /\ missed = [o \in Ids |-> FALSE]
    /\ routePc = "idle"
    /\ raydiumResult = PendingQuote
    /\ meteoraResult = PendingQuote
    /\ quoteCalls = [v \in {"raydium", "meteora"} |-> 0]
    /\ decision = NoDecision
    /\ connections = {}
    /\ listeners = {}
    /\ channelOn = FALSE
    /\ sockOpen = {}
    /\ sockPc = [k \in Sockets |-> "new"]
    /\ eventNo = 0
    /\ copies = [k \in Sockets |-> 0]
    /\ pings = [k \in Sockets |-> 0]
    /\ pongs = [k \in Sockets |-> 0]
    /\ confirms = [k \in Sockets |-> 0]

NextPool ==
    \/ Activate
    \/ \E o \in Ids :
        \/ PoolAddOrder(o)
        \/ MockCallback(o)

\* the queue alone, with the mock callback of the queue tests
SpecPool == InitPool /\ [][NextPool]_vars

\* pauseQueue calls followed
MaxPauses == 2
\* jobs added in the pause runs
PauseJobs == 3

\* OrderQueue.pauseQueue
PauseQueue ==
    /\ pauses < MaxPauses
    /\ ~paused
    /\ paused' = TRUE
    /\ pauses' = pauses + 1
    /\ waitedPaused' = waitedPaused \cup Range(wait)
    /\ UNCHANGED <<processingCallback, uvars, xvars, qvars, wvars, ovars, subPc, evars,
                   cvars, calls, enteredRouting, dirvars, donePaused, lvars, tvars, hvars, kvars>>

\* OrderQueue.resumeQueue
ResumeQueue ==
    /\ paused
    /\ paused' = FALSE
    /\ UNCHANGED <<processingCallback, uvars, xvars, qvars, wvars, ovars, subPc, evars,
                   cvars, calls, enteredRouting, dirvars, pauses, waitedPaused,
                   donePaused, lvars, tvars, hvars, kvars>>

NextPause ==
    \/ Activate
    \/ PauseQueue
    \/ ResumeQueue
    \/ \E o \in 1..PauseJobs :
        \/ PoolAddOrder(o)
        \/ MockCallback(o)

\* the queue with the mock callback, paused and resumed
\* the worker takes a waiting job when it may; a started callback returns
LiveSpecPause ==
    /\ InitPool
    /\ [][NextPause]_vars
    /\ WF_vars(Activate)
    /\ \A o \in 1..PauseJobs : WF_vars(MockCallback(o))

(* --------------------------------------------------- retry and backoff ---- *)

\* jobs added in the retry runs
RetryJobs == 2
\* the clock is followed up to this many steps of BaseDelay
MaxRetryTicks == 4

\* the backoff delay of a delayed job has run out
RetryPromote(o) ==
    /\ now >= dueAt[o]
    /\ Promote(o)

\* a second passes
RetryTick ==
    /\ now < MaxRetryTicks * BaseDelay
    /\ now' = now + BaseDelay
    /\ UNCHANGED <<processingCallback, uvars, xvars, qvars, wvars, ovars, subPc, evars,
                   cvars, calls, enteredRouting, dirvars, gvars, tvars, waitingN,
                   activeN, limiterCount, limiterExpires, startedNow,
                   startedPrev, hvars, kvars>>

NextRetry ==
    \/ Activate
    \/ RetryTick
    \/ \E o \in 1..RetryJobs :
        \/ PoolAddOrder(o)
        \/ MockCallback(o)
        \/ MockCallbackRejects(o)
        \/ RetryPromote(o)

\* the queue with a mock callback that may reject, against the clock
SpecRetry == InitPool /\ [][NextRetry]_vars

(* ------------------------------------------------- the rate limiter ---- *)

\* Worker option limiter: { max: 100, duration: 60000 }
LimiterMax == 100
LimiterDuration == 60000

\* the clock of the limiter runs advances in steps of half the duration
Tick == LimiterDuration \div 2
\* the clock is followed up to this many steps
MaxTicks == 3
\* jobs waiting at once in the limiter runs
MaxBacklog == 1

\* what the limiter runs leave alone
limiterFrame == <<processingCallback, uvars, xvars, qvars, wvars, ovars, subPc, evars,
                  cvars, calls, enteredRouting, dirvars, gvars, tvars, hvars, kvars>>

\* the limiter's counter is a key that expires `duration` after it was set
LimiterKeyLive == limiterExpires > now

\* the worker starts a job only while the counter is below max
RateBudget == ~LimiterKeyLive \/ limiterCount < LimiterMax

\* orderQueue.addOrder of a fresh id
LimiterAddOrder ==
    /\ waitingN < MaxBacklog
    /\ waitingN' = waitingN + 1
    /\ UNCHANGED <<limiterFrame, now, activeN, limiterCount, limiterExpires,
                   startedNow, startedPrev>>

\* the worker starts a waiting job: the counter is incremented, and set to
\* expire after `duration` when this job is the first one it counts
LimiterActivate ==
    /\ waitingN > 0
    /\ activeN < Concurrency
    /\ RateBudget
    /\ waitingN' = waitingN - 1
    /\ activeN' = activeN + 1
    /\ startedNow' = startedNow + 1
    /\ IF LimiterKeyLive
       THEN limiterCount' = limiterCount + 1 /\ limiterExpires' = limiterExpires
       ELSE limiterCount' = 1 /\ limiterExpires' = now + LimiterDuration
    /\ UNCHANGED <<limiterFrame, now, startedPrev>>

\* the callback of an active job returns
LimiterComplete ==
    /\ activeN > 0
    /\ activeN' = activeN - 1
    /\ UNCHANGED <<limiterFrame, now, waitingN, limiterCount, limiterExpires,
                   startedNow, startedPrev>>

\* time passes
LimiterTick ==
    /\ now < MaxTicks * Tick
    /\ now' = now + Tick
    /\ startedPrev' = startedNow
    /\ startedNow' = 0
    /\ UNCHANGED <<limiterFrame, waitingN, activeN, limiterCount, limiterExpires>>

NextLimiter ==
    \/ LimiterAddOrder
    \/ LimiterActivate
    \/ LimiterComplete
    \/ LimiterTick

\* the worker's limiter and pool, jobs counted rather than named
SpecLimiter == InitPool /\ [][NextLimiter]_vars

(* ------------------------------------------------ getStats, healthCheck ---- *)

\* jobs added in the statistics runs
StatsJobs == 2

\* queue.getWaiting(), getActive(), ...: the jobs in one list at this moment
JobsIn(b) ==
    CASE b = "waiting" -> IF paused THEN {} ELSE Range(wait)
      [] b = "active" -> {o \in Ids : runs[o] > 0}
      [] b = "completed" -> completed
      [] b = "failed" -> failed
      [] b = "delayed" -> delayed
      [] b = "paused" -> IF paused THEN Range(wait) ELSE {}

statsFrame == <<processingCallback, uvars, xvars, qvars, wvars, ovars, subPc, evars,
                cvars, calls, enteredRouting, dirvars, gvars, lvars, tvars,
                kvars>>

\* getStats is called: Promise.all issues the six reads
GetStatsStart ==
    /\ statsPc \in {"idle", "done"}
    /\ statsPc' = BucketOrder[1]
    /\ statsSeen' = [b \in Range(BucketOrder) |-> {}]
    /\ statsJobs' = {o \in Ids : JobExists(o)}
    /\ UNCHANGED <<statsFrame, health>>

\* one of the six reads is served; the worker may act between two reads
GetStatsRead ==
    /\ statsPc \in Range(BucketOrder)
    /\ statsSeen' = [statsSeen EXCEPT ![statsPc] = JobsIn(statsPc)]
    /\ LET i == CHOOSE k \in DOMAIN BucketOrder : BucketOrder[k] = statsPc
       IN statsPc' = IF i = Len(BucketOrder) THEN "done" ELSE BucketOrder[i + 1]
    /\ UNCHANGED <<statsFrame, statsJobs, health>>

NextStats ==
    \/ Activate
    \/ GetStatsStart
    \/ GetStatsRead
    \/ \E o \in 1..StatsJobs :
        \/ PoolAddOrder(o)
        \/ MockCallback(o)
        \/ MockCallbackRejects(o)
        \/ Promote(o)

\* the queue with a mock callback that may reject, and getStats called
\* while the worker runs
SpecStats == InitPool /\ [][NextStats]_vars

\* healthCheck: stats.active < 15 && stats.waiting < 50
HealthyActiveBelow == 15
HealthyWaitingBelow == 50

IsHealthy(st) == st.active < HealthyActiveBelow /\ st.waiting < HealthyWaitingBelow

\* jobs waiting at once in the health runs
HealthBacklog == 50

\* orderQueue.addOrder of a fresh id
HealthAddOrder ==
    /\ waitingN < HealthBacklog
    /\ waitingN' = waitingN + 1
    /\ UNCHANGED <<limiterFrame, now, activeN, limiterCount, limiterExpires,
                   startedNow, startedPrev>>

\* OrderQueue.healthCheck, jobs counted rather than named: the counts of
\* getStats and the verdict computed from them
HealthCheck ==
    /\ health' = [isHealthy |-> IsHealthy([waiting |-> waitingN, active |-> activeN]),
                  waiting |-> waitingN, active |-> activeN]
    /\ UNCHANGED <<statsFrame, statsPc, statsSeen, statsJobs>>

\* the worker starts a waiting job (the rate budget is not followed in the
\* health runs)
HealthActivate ==
    /\ waitingN > 0
    /\ activeN < Concurrency
    /\ waitingN' = waitingN - 1
    /\ activeN' = activeN + 1
    /\ UNCHANGED <<limiterFrame, now, limiterCount, limiterExpires, startedNow,
                   startedPrev>>

NextHealth ==
    \/ HealthAddOrder
    \/ HealthActivate
    \/ LimiterComplete
    \/ HealthCheck

\* the worker's pool with a backlog, and healthCheck called while it runs
SpecHealth == InitPool /\ [][NextHealth]_vars

\* submitOrder calls followed in the validation runs
MaxSubmits == 2

NextSubmit ==
    \E o \in 1..MaxSubmits :
        \/ \E r \in Requests : SubmitOrder(o, r)
        \/ SubmitPublish(o)

\* submitOrder alone, called with every request of Requests
SpecSubmit == Init /\ [][NextSubmit]_vars

(* ------------------------------------------- the router on its own ---- *)

\* what the router and socket runs below leave alone
coreVars == <<processingCallback, uvars, rvars, svars, qvars, wvars, ovars, subPc,
              evars, cvars, calls, enteredRouting, avars>>

\* getBestRoute is called: getAllQuotes starts both venue calls
RouteStart ==
    /\ routePc \in {"idle", "done"}
    /\ routePc' = "quoting"
    /\ raydiumResult' = PendingQuote
    /\ meteoraResult' = PendingQuote
    /\ quoteCalls' = [v \in {RAYDIUM, METEORA} |-> 0]
    /\ decision' = NoDecision
    /\ UNCHANGED <<coreVars, bvars>>

\* getRaydiumQuote settles: it throws or returns a quote
GetRaydiumQuote ==
    /\ routePc = "quoting"
    /\ raydiumResult = PendingQuote
    /\ \E q \in RaydiumQuotes \cup {NoQuote(RAYDIUM)} : raydiumResult' = q
    /\ quoteCalls' = [quoteCalls EXCEPT ![RAYDIUM] = @ + 1]
    /\ UNCHANGED <<coreVars, bvars, routePc, meteoraResult, decision>>

\* getMeteorQuote settles: it throws or returns a quote
GetMeteorQuote ==
    /\ routePc = "quoting"
    /\ meteoraResult = PendingQuote
    /\ \E q \in MeteoraQuotes \cup {NoQuote(METEORA)} : meteoraResult' = q
    /\ quoteCalls' = [quoteCalls EXCEPT ![METEORA] = @ + 1]
    /\ UNCHANGED <<coreVars, bvars, routePc, raydiumResult, decision>>

\* Promise.allSettled resolved: getBestRoute returns its decision or throws
RouteDecide ==
    /\ routePc = "quoting"
    /\ raydiumResult # PendingQuote
    /\ meteoraResult # PendingQuote
    /\ decision' = BestRoute(raydiumResult, meteoraResult)
    /\ routePc' = "done"
    /\ UNCHANGED <<coreVars, bvars, raydiumResult, meteoraResult, quoteCalls>>

NextRoute ==
    \/ RouteStart
    \/ GetRaydiumQuote
    \/ GetMeteorQuote
    \/ RouteDecide

\* dexRouter.getBestRoute called over and over, with every pair of venue
\* results
SpecRoute == Init /\ [][NextRoute]_vars

(* ------------------------------------ concurrent updateOrderStatus ---- *)

\* what the callers pass to updateOrderStatus: the 'active' listener and
\* processOrder a status alone, the 'failed' listener, the catch block and
\* cancelOrder FAILED with an errorMessage, processOrder CONFIRMED with a
\* txHash (and executedPrice); "" is a field additionalData does not have
UpdateArgs ==
    {[status |-> PENDING, errorMessage |-> "", txHash |-> ""],
     [status |-> ROUTING, errorMessage |-> "", txHash |-> ""],
     [status |-> FAILED, errorMessage |-> "Processing failed", txHash |-> ""]}
    \cup {[status |-> CONFIRMED, errorMessage |-> "", txHash |-> h] : h \in TxHashes}

updateFrame == <<processingCallback, xvars, qvars, wvars, dbStatus, dbError, timer,
                 subPc, evars, cvars, calls, enteredRouting, dirvars, nvars,
                 executionResult, txHash, cachedDex>>

\* updateOrderStatus: `await this.getActiveOrder(orderId)`.  All callers use
\* the one client of the redis singleton: its commands run in the order they
\* are issued, so the GET returns the record as the commands issued before
\* it left it
UpdateGet(c) ==
    /\ updArgs[c] = NoUpdate
    /\ \E a \in UpdateArgs : updArgs' = [updArgs EXCEPT ![c] = a]
    /\ updLocal' = [updLocal EXCEPT ![c] =
                       [status |-> status[1], errorMessage |-> errorMessage[1],
                        txHash |-> cachedTx[1]]]
    /\ inflight' = Append(inflight, c)
    /\ updOrder' = Append(updOrder, c)
    /\ UNCHANGED <<updateFrame, status, errorMessage, cachedTx>>

\* updateOrderStatus: when the GET found a record, status and
\* additionalData are assigned to the copy it returned and
\* `await this.setActiveOrder(orderId, order)` stores the whole copy.  The
\* replies to the GETs are handled in order, so the SETs are issued in the
\* order of the GETs
UpdateSet(c) ==
    /\ inflight # <<>>
    /\ c = Head(inflight)
    /\ inflight' = Tail(inflight)
    /\ IF updLocal[c].status = "none"
       THEN UNCHANGED <<status, errorMessage, cachedTx>>
       ELSE /\ status' = [status EXCEPT ![1] = updArgs[c].status]
            /\ errorMessage' = [errorMessage EXCEPT ![1] =
                                  IF updArgs[c].errorMessage # ""
                                  THEN updArgs[c].errorMessage
                                  ELSE updLocal[c].errorMessage]
            /\ cachedTx' = [cachedTx EXCEPT ![1] =
                              IF updArgs[c].txHash # "" THEN updArgs[c].txHash
                              ELSE updLocal[c].txHash]
    /\ UNCHANGED <<updateFrame, updArgs, updLocal, updOrder>>

NextUpdate ==
    \/ SubmitOrder(1, SampleRequest)
    \/ \E c \in UpdateCalls :
        \/ UpdateGet(c)
        \/ UpdateSet(c)

\* the Redis record of one order under concurrent updateOrderStatus calls
SpecUpdate == Init /\ [][NextUpdate]_vars

(* ----------------------------------------- the sockets of one order ---- *)

\* {type: 'ping'} messages a client sends in the runs
MaxPings == 1

\* socket.on('message', ...) has been registered for the socket
MessageHandlerOn(k) == sockPc[k] = "live"

\* handleOrderStatusConnection: addConnection (the socket joins the
\* connections of the order)
Connect(k) ==
    /\ sockPc[k] = "new"
    /\ sockPc' = [sockPc EXCEPT ![k] = "snapshot"]
    /\ connections' = connections \cup {k}
    /\ sockOpen' = sockOpen \cup {k}
    /\ UNCHANGED <<coreVars, dvars, mvars, listeners, channelOn, eventNo, copies>>

\* handleOrderStatusConnection: sendCurrentOrderStatus returned
Snapshot(k) ==
    /\ sockPc[k] = "snapshot"
    /\ sockPc' = [sockPc EXCEPT ![k] = "subscribe"]
    /\ UNCHANGED <<coreVars, dvars, mvars, connections, listeners, channelOn, sockOpen,
                   eventNo, copies>>

\* redis.subscribeToOrderUpdates: SUBSCRIBE on the shared subscriber client
\* and one more 'message' listener, which calls sendMessage(socket, ...);
\* then the socket's 'close' handler is registered
SubscribeLive(k) ==
    /\ sockPc[k] = "subscribe"
    /\ sockPc' = [sockPc EXCEPT ![k] = "live"]
    /\ channelOn' = TRUE
    /\ listeners' = listeners \cup {k}
    /\ UNCHANGED <<coreVars, dvars, mvars, connections, sockOpen, eventNo, copies>>

\* the client closes a live socket; socket.on('close'): removeConnection
\* (which drops the order's entry only when at most one socket is in it) and
\* redis.unsubscribeFromOrderUpdates (UNSUBSCRIBE of the channel; the
\* 'message' listeners stay)
Close(k) ==
    /\ sockPc[k] = "live"
    /\ k \in sockOpen
    /\ sockPc' = [sockPc EXCEPT ![k] = "closed"]
    /\ sockOpen' = sockOpen \ {k}
    /\ connections' = IF Cardinality(connections) <= 1 THEN {} ELSE connections
    /\ channelOn' = FALSE
    /\ UNCHANGED <<coreVars, dvars, mvars, listeners, eventNo, copies>>

\* the client closes its socket while handleOrderStatusConnection is still
\* awaiting: no 'close' handler is registered yet, nothing is removed, and
\* the handler goes on to subscribe
CloseEarly(k) ==
    /\ sockPc[k] \in {"snapshot", "subscribe"}
    /\ k \in sockOpen
    /\ sockOpen' = sockOpen \ {k}
    /\ UNCHANGED <<coreVars, dvars, mvars, connections, listeners, channelOn,
                   sockPc, eventNo, copies>>

\* cleanupConnections: keeps the OPEN sockets of the entry, deletes an entry
\* left with none
CleanupConnections ==
    /\ connections' = connections \cap sockOpen
    /\ UNCHANGED <<coreVars, dvars, mvars, listeners, channelOn, sockOpen,
                   sockPc, eventNo, copies>>

\* sockets a message published on the channel is sent to: every listener of
\* the subscribed client calls sendMessage, which sends on an OPEN socket
ChannelReceivers == IF channelOn THEN listeners \cap sockOpen ELSE {}

LocalReceiversAll == sockOpen

\* sockets broadcastToOrder sends to itself: connections.forEach(sendMessage)
LocalReceivers == connections \cap sockOpen

\* redis.publishOrderUpdate of the next event of the order
PublishOrderUpdate ==
    /\ eventNo < MaxEvents
    /\ eventNo' = eventNo + 1
    /\ copies' = [k \in Sockets |-> IF k \in ChannelReceivers THEN 1 ELSE 0]
    /\ UNCHANGED <<coreVars, dvars, mvars, connections, listeners, channelOn, sockOpen,
                   sockPc>>

\* WebSocketService.broadcastToOrder of the next event: the local sends,
\* then redis.publishOrderUpdate
BroadcastToOrder ==
    /\ eventNo < MaxEvents
    /\ eventNo' = eventNo + 1
    /\ copies' = [k \in Sockets |->
                    (IF k \in LocalReceivers THEN 1 ELSE 0)
                    + (IF k \in ChannelReceivers THEN 1 ELSE 0)]
    /\ UNCHANGED <<coreVars, dvars, mvars, connections, listeners, channelOn, sockOpen,
                   sockPc>>

\* the client of an order socket sends {type: 'ping'}. The server's
\* socket.on('message') handler is registered at the end of
\* handleOrderStatusConnection, after its three awaits: once it is, it calls
\* handleClientMessage, whose 'ping' case sends {orderId, status: 'pong'} to
\* that socket; a message that arrives before has no listener and is dropped
ClientPing(k) ==
    /\ k \in sockOpen
    /\ sockPc[k] \in {"snapshot", "subscribe", "live"}
    /\ pings[k] < MaxPings
    /\ pings' = [pings EXCEPT ![k] = @ + 1]
    /\ pongs' = IF MessageHandlerOn(k) THEN [pongs EXCEPT ![k] = @ + 1] ELSE pongs
    /\ UNCHANGED <<coreVars, dvars, connections, listeners, channelOn, sockOpen,
                   sockPc, eventNo, copies, confirms>>

\* handleGlobalConnection: a socket of /orders/stream is sent the
\* 'connected' message; it joins neither the connections of an order nor
\* the listeners of a channel
HandleGlobalConnection(k) ==
    /\ sockPc[k] = "new"
    /\ sockPc' = [sockPc EXCEPT ![k] = "global"]
    /\ sockOpen' = sockOpen \cup {k}
    /\ confirms' = [confirms EXCEPT ![k] = @ + 1]
    /\ UNCHANGED <<coreVars, dvars, connections, listeners, channelOn, eventNo,
                   copies, pings, pongs>>

\* the client of a global socket closes it: the 'close' handler only logs
CloseGlobal(k) ==
    /\ sockPc[k] = "global"
    /\ sockPc' = [sockPc EXCEPT ![k] = "closed"]
    /\ sockOpen' = sockOpen \ {k}
    /\ UNCHANGED <<coreVars, dvars, mvars, connections, listeners, channelOn,
                   eventNo, copies>>

NextSockets ==
    \/ PublishOrderUpdate
    \/ BroadcastToOrder
    \/ CleanupConnections
    \/ \E k \in Sockets :
        \/ Connect(k)
        \/ Snapshot(k)
        \/ SubscribeLive(k)
        \/ Close(k)
        \/ CloseEarly(k)
        \/ ClientPing(k)
        \/ HandleGlobalConnection(k)
        \/ CloseGlobal(k)

\* the WebSocket service and the channel of one order, with both publish paths
SpecSockets == Init /\ [][NextSockets]_vars

(* ------------------------------------------------------------- claims ---- *)

\* the forward edge of the transition graph
Successor(a) ==
    CASE a = PENDING -> ROUTING
      [] a = ROUTING -> BUILDING
      [] a = BUILDING -> SUBMITTED
      [] a = SUBMITTED -> CONFIRMED
      [] OTHER -> "none"

\* a legal change from status a to status b: one step forward, or to failed
\* from a non-terminal status
LegalTransition(a, b) ==
    /\ a \in OrderStatus \ Terminal
    /\ b = Successor(a) \/ b = FAILED

\* C1: the statuses a subscriber of an order is sent follow the transition
\* graph: after the first message (the snapshot), each message that differs
\* from the one before is a legal transition, and none follows confirmed or
\* failed.
C1_MonotonicLifecycle ==
    [][\A o \in Orders :
          (delivered[o] # "none" /\ delivered'[o] # delivered[o])
              => LegalTransition(delivered[o], delivered'[o])]_vars

\* C2: every change of the status getOrderStatus returns is a legal
\* transition (the creation of the order as pending aside).
C2_StoredStatusLegal ==
    [][\A o \in Orders :
          (GetOrderStatus(o) # "none" /\ GetOrderStatus(o)' # GetOrderStatus(o))
              => LegalTransition(GetOrderStatus(o), GetOrderStatus(o)')]_vars

\* C3: adding an order id again while its job is waiting or active never
\* starts a second run: at most one worker executes the callback for an id.
C3_AtMostOneWorker == \A o \in Ids : runs[o] <= 1

\* an id was added again while its job was waiting or active, and it is
\* being processed by its one worker
C3_Witness == deduped /\ runs[1] = 1 /\ 1 \notin Range(wait)

CancelRemoved(o) == cpc[o] \in {"db", "redis", "publish"} \/ cancelledOk[o]

\* C5: an order is failed (stored status or published event) only once its
\* attempts are exhausted (or once a cancel has removed its job).
C5_FailedOnlyAfterExhaustion ==
    \A o \in Orders :
        (GetOrderStatus(o) = FAILED \/ published[o] = FAILED)
            => (attemptsMade[o] >= MaxAttempts \/ CancelRemoved(o))

\* C6: once routing has been entered a cancel is rejected by the status
\* guard (invalid state): it neither succeeds nor returns any other error.
C6_CancelGuard ==
    [][\A o \in Orders :
          enteredRouting[o] => ~(cpc[o] # "idle" /\ cpc'[o] = "idle")]_vars

C8_CancelOnlyUnstarted ==
    [][\A o \in Ids :
          (JobExists(o) /\ ~JobExists(o)')
              => JobStateOf(o) \notin {"active", "completed", "failed"}]_vars

\* C9: the number of active jobs never exceeds the worker pool size.
C9_ActiveWithinPool == ActiveCount <= Concurrency

\* more jobs than workers were added: the pool is full, the rest wait
C9_Witness == ActiveCount = Concurrency /\ Len(wait) = PoolSize - Concurrency

\* the order's status is terminal and its job is neither waiting, running
\* nor delayed
Settled(o) ==
    /\ GetOrderStatus(o) \in Terminal
    /\ JobStateOf(o) \notin {"waiting", "active", "delayed"}

AllUnavailable ==
    "All DEXs unavailable: Raydium: Raydium API temporarily unavailable, Meteora: Meteora API temporarily unavailable"

\* C11: while no venue has quoted for an order, its selectedDex and
\* executedPrice are unset everywhere; once its attempts are exhausted it is
\* failed and the stored error reason names both venues as unavailable.
C11_TotalFailure ==
    \A o \in Orders :
        ~everQuoted[o] =>
            /\ selectedDex[o] = "none"
            /\ executedPrice[o] = 0
            /\ cachedPrice[o] = 0
            /\ o \in failed =>
                /\ GetOrderStatus(o) = FAILED
                /\ dbStatus[o] = FAILED
                /\ GetOrderError(o) = AllUnavailable
                /\ dbError[o] = AllUnavailable

\* both venues failed to quote on each of the three attempts
C11_Witness == 1 \in failed /\ ~everQuoted[1] /\ calls[1] = 3

\* C16: the first message a joining subscriber is sent is the order's
\* current status (the one getOrderStatus returns at that moment).
C16_SnapshotIsCurrentStatus ==
    [][\A o \in Orders :
          (~snap[o] /\ snap'[o]) => delivered'[o] = GetOrderStatus(o)]_vars

\* C17: no status event of an order is published between the delivery of a
\* subscriber's snapshot and the start of its live subscription, where it
\* would reach nobody: the subscriber misses no transition.
C17_NoMissedTransition == \A o \in Orders : ~missed[o]

\* the claim's reading of an invalid request
ClaimInvalid(r) ==
    \/ r.tokenIn = r.tokenOut
    \/ r.amount <= 0
    \/ r.slippage < 0
    \/ r.slippage > MaxSlippage

ClaimValid(r) ==
    /\ r.tokenIn # r.tokenOut
    /\ r.amount > 0
    /\ 0 <= r.slippage
    /\ r.slippage <= MaxSlippage

\* C20: a request naming two tokens is accepted exactly when the tokens
\* differ, the amount is positive and 0 <= slippage <= 0.5, both bounds
\* included.
C20_AcceptsExactlyValid ==
    (submitResult # "idle" /\ request.tokenIn # "" /\ request.tokenOut # "")
        => (submitResult = "accepted" <=> ClaimValid(request))

\* C21: validateOrderRequest throws for a request one of whose tokens is
\* not a valid token address, also when the tokens differ and the amount
\* and the slippage are valid.
C21_InvalidAddressRejected ==
    (submitResult # "idle"
        /\ (~IsValidSolanaAddress(request.tokenIn)
             \/ ~IsValidSolanaAddress(request.tokenOut)))
        => submitResult # "accepted"

\* C22: an addOrder call for an id whose job is waiting or in flight
\* settles with a DuplicateAdmissionError and leaves the job, its attempt
\* count and the order's status as they were.
C22_DuplicateAdmission ==
    [][(resubmits' # resubmits /\ addDuplicate')
          => /\ addOrderResult' = "DuplicateAdmissionError"
             /\ UNCHANGED <<qvars, status, dbStatus>>]_vars

\* C23: while the queue is paused no job is dispatched (the callback is
\* not invoked) and active jobs still complete; a job that waits while the
\* queue is not paused is processed, unless the queue is paused again
\* first.
C23_PauseStopsDispatch ==
    /\ [][paused => \A o \in Ids : calls'[o] = calls[o] /\ runs'[o] <= runs[o]]_vars
    /\ \A o \in 1..PauseJobs :
          (o \in waitedPaused /\ ~paused) ~> (calls[o] > 0 \/ paused)

\* a job added during a pause was processed after the resume, and a job
\* that was active when the pause began completed during it
C23_Witness ==
    /\ ~paused
    /\ 1 \in donePaused
    /\ 2 \in waitedPaused
    /\ completed = {1, 2}

\* C24: the jobs started at two instants less than 60 seconds apart never
\* number more than 100 (no 60-second window holds more than 100 starts),
\* and no job is started while the window's budget is used up.
C24_RateLimit ==
    /\ [](startedPrev + startedNow <= LimiterMax)
    /\ [][(LimiterKeyLive /\ limiterCount >= LimiterMax)
            => startedNow' <= startedNow]_vars

\* C29: a job whose callback failed k times and then succeeded has had
\* its callback invoked exactly k + 1 times, with k < 3, and is completed;
\* the callback is never invoked for a completed job.
C29_RetryThenSuccess ==
    /\ [](\A o \in 1..RetryJobs :
            o \in completed =>
                /\ attemptsMade[o] < MaxAttempts
                /\ calls[o] = attemptsMade[o] + 1
                /\ JobStateOf(o) = "completed")
    /\ [][\A o \in 1..RetryJobs : o \in completed => calls'[o] = calls[o]]_vars

\* one failure followed by a success: two invocations, and the job has
\* stayed completed while the clock ran on
C29_Witness ==
    /\ 1 \in completed
    /\ attemptsMade[1] = 1
    /\ calls[1] = 2
    /\ now > dueAt[1]

C25_StatsConsistent ==
    statsPc = "done" =>
        \A o \in statsJobs : Cardinality({b \in Range(BucketOrder) : o \in statsSeen[b]}) = 1

\* the backlog threshold the health check is configured with
BacklogThreshold == HealthyWaitingBelow

\* C26: healthCheck returns isHealthy = false exactly when the active count
\* is above the worker pool size or the waiting count is above the backlog
\* threshold.
C26_HealthExact ==
    health # NoHealth =>
        (~health.isHealthy
            <=> (health.active > Concurrency \/ health.waiting > BacklogThreshold))

\* C27: once set, an order's selectedDex, executedPrice and txHash keep
\* their value: no attempt clears them or writes a different value.
C27_SetOnce ==
    [][\A o \in Orders :
          /\ selectedDex[o] # "none" => selectedDex'[o] = selectedDex[o]
          /\ executedPrice[o] # 0 => executedPrice'[o] = executedPrice[o]
          /\ txHash[o] # "" => txHash'[o] = txHash[o]]_vars

\* the selectedDex, txHash and executedPrice of the order getOrderStatus
\* returns: the Redis record's when there is one, the database row's otherwise
GetOrder(o) ==
    IF status[o] # "none"
    THEN [selectedDex |-> cachedDex[o], txHash |-> cachedTx[o],
          executedPrice |-> cachedPrice[o]]
    ELSE [selectedDex |-> selectedDex[o], txHash |-> txHash[o],
          executedPrice |-> executedPrice[o]]

\* C28: an order getOrderStatus returns as confirmed has a selectedDex, a
\* non-empty txHash and a positive executedPrice, and a confirmed event
\* carries a non-empty txHash and a positive executedPrice.
C28_ConfirmedComplete ==
    \A o \in Orders :
        /\ GetOrderStatus(o) = CONFIRMED =>
            /\ GetOrder(o).selectedDex \in {RAYDIUM, METEORA}
            /\ GetOrder(o).txHash # ""
            /\ GetOrder(o).executedPrice > 0
        /\ published[o] = CONFIRMED =>
            /\ publishedData[o][1] # ""
            /\ publishedData[o][2] > 0

\* getBestRoute has returned a decision made on two quotes
TwoQuotes == routePc = "done" /\ raydiumResult.ok /\ meteoraResult.ok

\* C12: on two quotes the selected quote's net price, price * (1 - fee -
\* slippage), is at least the alternative's, the two quotes of the decision
\* are the two venues' quotes, the selected venue is the selected quote's
\* provider, and Raydium is selected exactly when its net price is
\* strictly higher.
C12_HigherNetSelected ==
    TwoQuotes =>
        /\ decision.error = ""
        /\ {decision.selectedQuote, decision.alternativeQuote}
              = {raydiumResult, meteoraResult}
        /\ decision.selectedQuote.price
              * (10000 - decision.selectedQuote.fee - decision.selectedQuote.slippage)
           >= decision.alternativeQuote.price
              * (10000 - decision.alternativeQuote.fee
                 - decision.alternativeQuote.slippage)
        /\ decision.selectedDex = decision.selectedQuote.provider
        /\ decision.selectedDex = RAYDIUM
              <=> (raydiumResult.price
                     * (10000 - raydiumResult.fee - raydiumResult.slippage)
                   > meteoraResult.price
                     * (10000 - meteoraResult.fee - meteoraResult.slippage))

\* the two net prices are equal and Meteora was selected
C12_Witness ==
    /\ TwoQuotes
    /\ NetPrice(raydiumResult) = NetPrice(meteoraResult)
    /\ decision.selectedDex = METEORA

\* C13: priceImprovement (a fraction: numerator, denominator) is never
\* negative, and on two quotes it is |netA - netB| * 100 over
\* min(netA, netB).
C13_PriceImprovement ==
    (routePc = "done" /\ decision.error = "") =>
        /\ decision.priceImprovement[1] >= 0
        /\ decision.priceImprovement[2] > 0
        /\ TwoQuotes =>
            LET netA == NetPrice(raydiumResult)
                netB == NetPrice(meteoraResult)
                gap == IF netA > netB THEN netA - netB ELSE netB - netA
                least == IF netA < netB THEN netA ELSE netB
            IN /\ decision.priceImprovement[1] = gap * 100
               /\ decision.priceImprovement[2] = least

\* two quotes with different net prices: the improvement is positive
C13_Witness ==
    /\ TwoQuotes
    /\ NetPrice(raydiumResult) > NetPrice(meteoraResult)
    /\ decision.priceImprovement[1] > 0

\* C14: on exactly one quote that venue and its quote are selected, the
\* reason names the other venue as unavailable, there is no alternative
\* quote and priceImprovement is 0.
C14_SingleQuote ==
    /\ (routePc = "done" /\ raydiumResult.ok /\ ~meteoraResult.ok) =>
            /\ decision.error = ""
            /\ decision.selectedDex = RAYDIUM
            /\ decision.selectedQuote = raydiumResult
            /\ decision.reason = "Meteora unavailable, using Raydium"
            /\ decision.alternativeQuote = NullQuote
            /\ decision.priceImprovement[1] = 0
    /\ (routePc = "done" /\ ~raydiumResult.ok /\ meteoraResult.ok) =>
            /\ decision.error = ""
            /\ decision.selectedDex = METEORA
            /\ decision.selectedQuote = meteoraResult
            /\ decision.reason = "Raydium unavailable, using Meteora"
            /\ decision.alternativeQuote = NullQuote
            /\ decision.priceImprovement[1] = 0

\* only Meteora quoted
C14_Witness ==
    /\ routePc = "done"
    /\ ~raydiumResult.ok
    /\ meteoraResult.ok
    /\ decision.selectedDex = METEORA

\* C15: when no venue quotes, getBestRoute returns no decision and throws
\* 'All DEXs unavailable' followed by each venue's failure; every call
\* quotes each venue exactly once.
C15_NoQuoteFails ==
    routePc = "done" =>
        /\ quoteCalls[RAYDIUM] = 1
        /\ quoteCalls[METEORA] = 1
        /\ (~raydiumResult.ok /\ ~meteoraResult.ok) =>
            /\ decision.error = AllUnavailable
            /\ decision.selectedDex = "none"
            /\ decision.selectedQuote = NullQuote
        /\ (raydiumResult.ok \/ meteoraResult.ok) => decision.error = ""

\* both venue calls threw
C15_Witness ==
    /\ routePc = "done"
    /\ ~raydiumResult.ok
    /\ ~meteoraResult.ok
    /\ decision.error # ""

\* C31: every ping message a subscriber of an order sends is answered with
\* one pong message, sent to that subscriber and to no other socket.
C31_PingAnswered ==
    [][\A k \in Sockets :
          pings'[k] # pings[k] =>
              /\ pongs'[k] = pongs[k] + 1
              /\ \A j \in Sockets \ {k} : pongs'[j] = pongs[j]]_vars

\* C33: a global subscriber has been sent exactly one connection
\* confirmation, and no status event of an order and no pong is sent to it.
C33_GlobalOnlyConfirmation ==
    \A k \in Sockets :
        sockPc[k] = "global" =>
            /\ confirms[k] = 1
            /\ copies[k] = 0
            /\ pongs[k] = 0

\* a global subscriber is connected, and the last of the events of the order
\* has been sent to a subscriber of the order
C33_Witness ==
    \E k, j \in Sockets :
        /\ sockPc[k] = "global"
        /\ confirms[k] = 1
        /\ sockPc[j] = "live"
        /\ eventNo = MaxEvents
        /\ copies[j] >= 1

\* C37: an event published for an order is sent to every subscriber of the
\* order whose socket is connected, also after other subscribers of the
\* order have disconnected.
C37_RemainingStillReceive ==
    [][eventNo' # eventNo =>
          \A k \in Sockets :
              (sockPc[k] = "live" /\ k \in sockOpen) => copies'[k] >= 1]_vars

\* C38: the socket of a subscriber that has disconnected is not in the
\* connection registry, and the registry has no entry for the order once
\* all its subscribers have disconnected.
C38_RegistryPurged ==
    /\ \A k \in Sockets :
          (sockPc[k] # "new" /\ k \notin sockOpen) => k \notin connections
    /\ (\A k \in Sockets : k \notin sockOpen) => connections = {}

\* C32: a cancelOrder call returns success, the invalid-state error or the
\* not-found error, nothing else; a call that returns an error leaves the
\* order's status and fields and its job as they were and publishes nothing.
C32_CancelOutcomes ==
    /\ [](\A o \in Orders :
            cancelResult[o] \in {"none", "success", "Order not found",
                                 "Cannot cancel order"})
    /\ [][\A o \in Orders :
            (cancelResult'[o] # cancelResult[o]
                /\ cancelResult'[o] \notin {"none", "success"}) =>
                /\ UNCHANGED <<status[o], errorMessage[o], dbStatus[o], dbError[o],
                               selectedDex[o], executedPrice[o], txHash[o]>>
                /\ UNCHANGED <<JobStateOf(o), published[o]>>]_vars

\* C34: the order getOrderStatus returns (and the snapshot a subscriber is
\* sent, which reads the same Redis record) has selectedDex set when its
\* status is building, submitted or confirmed, and has it unset when its
\* status is pending; estimatedPrice is written by the same call and to the
\* same record as selectedDex.
C34_BuildingHasVenue ==
    \A o \in Orders :
        /\ GetOrderStatus(o) \in {BUILDING, SUBMITTED, CONFIRMED}
               => GetOrder(o).selectedDex # "none"
        /\ GetOrderStatus(o) = PENDING => GetOrder(o).selectedDex = "none"

\* C35: when a transition of an order begins (its stored status changes),
\* the event of the status it leaves has been published; the routing
\* transition and the routing event come after submitOrder has published
\* the pending event.
C35_EventBeforeNextTransition ==
    [][\A o \in Orders :
          /\ (status[o] # "none" /\ status'[o] # "none" /\ status'[o] # status[o])
                => published[o] = status[o]
          /\ ((status'[o] = ROUTING /\ status[o] # ROUTING)
                \/ (published'[o] = ROUTING /\ published[o] # ROUTING))
                => subPc[o] = "done"]_vars

\* C36: no step of the queue changes an order's status or error message:
\* not the activation of a job (with the worker's 'active' listener) and
\* not the queue's cancelOrder.  (The 'failed' listener writes what the
\* catch block of processOrder has just written.)
C36_QueueWritesNoOrderField ==
    [][(Activate \/ \E o \in Orders : QueueCancelOrder(o))
          => UNCHANGED <<status, errorMessage>>]_vars

\* C39: an attempt whose getBestRoute throws is not re-quoted: it goes to
\* its catch block, and getBestRoute runs only after the routing event of an
\* attempt.  While attempts remain the job is run again (unless it has been
\* removed), and an order is confirmed only from submitted, also when an
\* earlier attempt failed on all venues.
C39_RetryAfterTotalFailure ==
    /\ [][\A o \in Orders :
            /\ (pc[o] = "getBestRoute" /\ err'[o] # err[o]) => pc'[o] = "catchDb"
            /\ (pc'[o] = "getBestRoute" /\ pc[o] # "getBestRoute")
                  => pc[o] = "pubRouting"
            /\ (dbStatus'[o] = CONFIRMED /\ dbStatus[o] # CONFIRMED)
                  => GetOrderStatus(o) = SUBMITTED]_vars
    /\ \A o \in Orders : \A n \in 1..(MaxAttempts - 1) :
          (pc[o] = "catchDb" /\ err[o] = AllUnavailable /\ calls[o] = n
              /\ attemptsMade[o] = n - 1)
            ~> (calls[o] = n + 1 \/ ~JobExists(o))

\* all venues failed to quote in the first attempt (the error it stored is
\* still in the database row), a later attempt has confirmed the order
C39_Witness ==
    /\ dbError[1] = AllUnavailable
    /\ calls[1] = 2
    /\ dbStatus[1] = CONFIRMED
    /\ GetOrderStatus(1) = CONFIRMED
    /\ selectedDex[1] # "none"

\* the last of the calls, in the order they started, that passed the field
LastWriter(HasField(_)) ==
    LET writers == {i \in 1..Len(updOrder) : HasField(updArgs[updOrder[i]])}
    IN  updOrder[CHOOSE i \in writers : \A j \in writers : j <= i]

\* C40: once concurrent updateOrderStatus calls on an order in Redis have
\* all completed, the record has the status of the last call to start and
\* every additional field a call passed (the value of the last call to
\* start that passed it).
C40_NoLostUpdate ==
    (/\ inflight = <<>>
     /\ updOrder # <<>>
     /\ \A c \in Range(updOrder) : updLocal[c].status # "none")
    => /\ status[1] = updArgs[updOrder[Len(updOrder)]].status
       /\ (\E c \in Range(updOrder) : updArgs[c].errorMessage # "")
            => errorMessage[1]
                 = updArgs[LastWriter(LAMBDA a : a.errorMessage # "")].errorMessage
       /\ (\E c \in Range(updOrder) : updArgs[c].txHash # "")
            => cachedTx[1] = updArgs[LastWriter(LAMBDA a : a.txHash # "")].txHash

\* C18: an event published for an order, by either publish path, is sent
\* at most once to each socket.
C18_AtMostOnce == \A k \in Sockets : copies[k] <= 1

====
